---- MODULE Spec2Model ----
(***************************************************************************)
(* Host file-integrity baseline engine: IntegrityScanner of                *)
(* siren_backend/services/integrity_scanner/scanner.py.                    *)
(*                                                                         *)
(* Paths, hashes and messages are strings; a snapshot (a Python dict,      *)
(* which keeps insertion order) is a sequence of entries with unique      *)
(* paths; the job table and the baseline store are functions.              *)
(***************************************************************************)
EXTENDS Integers, Sequences, FiniteSets, TLC

VARIABLES
    sep,        \* os.sep of the platform the service runs on
    fs,         \* the host file system: roots and files under them
    clock,      \* source of get_timestamp()
    scans,      \* IntegrityScanner.scans: job_id -> scan record
    baselines,  \* IntegrityScanner.baselines: host_id -> baseline record
    calls,      \* one frame per start_scan invocation: position and locals
    inp,        \* input of the pure-function specifications
    reads       \* one frame per get_results, list_scans or get_baseline call

vars == <<sep, fs, clock, scans, baselines, calls, inp, reads>>

None == "None"

-----------------------------------------------------------------------------
(* Strings                                                                 *)

UpperToLower ==
    [c \in {"A","B","C","D","E","F","G","H","I","J","K","L","M",
            "N","O","P","Q","R","S","T","U","V","W","X","Y","Z"} |->
       CASE c = "A" -> "a" [] c = "B" -> "b" [] c = "C" -> "c" [] c = "D" -> "d"
         [] c = "E" -> "e" [] c = "F" -> "f" [] c = "G" -> "g" [] c = "H" -> "h"
         [] c = "I" -> "i" [] c = "J" -> "j" [] c = "K" -> "k" [] c = "L" -> "l"
         [] c = "M" -> "m" [] c = "N" -> "n" [] c = "O" -> "o" [] c = "P" -> "p"
         [] c = "Q" -> "q" [] c = "R" -> "r" [] c = "S" -> "s" [] c = "T" -> "t"
         [] c = "U" -> "u" [] c = "V" -> "v" [] c = "W" -> "w" [] c = "X" -> "x"
         [] c = "Y" -> "y" [] c = "Z" -> "z"]

LowerChar(c) == IF c \in DOMAIN UpperToLower THEN UpperToLower[c] ELSE c

RECURSIVE LowerFrom(_, _)
\* the characters of s from the k-th on, each in lower case
LowerFrom(s, k) ==
    IF k > Len(s) THEN ""
    ELSE LowerChar(SubSeq(s, k, k)) \o LowerFrom(s, k + 1)

\* str.lower()
Lower(s) == LowerFrom(s, 1)

\* Python's `sub in s` on strings
Contains(sub, s) ==
    \E i \in 1..(Len(s) - Len(sub) + 1) : SubSeq(s, i, i + Len(sub) - 1) = sub

-----------------------------------------------------------------------------
(* Risk classifier: _assess_file_risk                                      *)

high_risk_indicators ==
    <<"system32\\drivers", "system32\\config", "windows\\system32\\",
      "startup", "run\\", "temp\\", "public\\">>

medium_risk_indicators == <<"program files", "programdata", "users\\">>

AnyIndicator(indicators, text) ==
    \E k \in 1..Len(indicators) : Contains(indicators[k], text)

\* mutant: the path is matched without being lower-cased first
AssessFileRiskCaseSensitive(filepath) ==
    IF AnyIndicator(high_risk_indicators, filepath) THEN "high"
    ELSE IF AnyIndicator(medium_risk_indicators, filepath) THEN "medium"
    ELSE "low"

\* mutant: the medium-risk list is consulted before the high-risk list
AssessFileRiskMediumFirst(filepath) ==
    LET filepath_lower == Lower(filepath) IN
    IF AnyIndicator(medium_risk_indicators, filepath_lower) THEN "medium"
    ELSE IF AnyIndicator(high_risk_indicators, filepath_lower) THEN "high"
    ELSE "low"

AssessFileRisk(filepath) ==
    LET filepath_lower == Lower(filepath) IN
    IF AnyIndicator(high_risk_indicators, filepath_lower) THEN "high"
    ELSE IF AnyIndicator(medium_risk_indicators, filepath_lower) THEN "medium"
    ELSE "low"

-----------------------------------------------------------------------------
(* Snapshots: insertion-ordered dict  path -> {hash, size, modified}       *)

Keys(snapshot) == {snapshot[k].path : k \in 1..Len(snapshot)}

Entry(snapshot, p) ==
    snapshot[CHOOSE k \in 1..Len(snapshot) : snapshot[k].path = p]

\* mutant: every assignment adds an entry
PutAppend(snapshot, e) == Append(snapshot, e)

\* current_snapshot[filepath] = {...}: an existing key keeps its position
Put(snapshot, e) ==
    IF e.path \in Keys(snapshot)
    THEN [k \in 1..Len(snapshot) |->
            IF snapshot[k].path = e.path THEN e ELSE snapshot[k]]
    ELSE Append(snapshot, e)

-----------------------------------------------------------------------------
(* Diff engine: _compare_with_baseline                                     *)

NewRecord(e) ==
    [path |-> e.path, change |-> "new", hash |-> e.hash,
     severity |-> AssessFileRisk(e.path)]

ModifiedRecord(e, b) ==
    [path |-> e.path, change |-> "modified", hash |-> e.hash,
     previous_hash |-> b.hash, severity |-> AssessFileRisk(e.path)]

\* mutant: a deleted file is reported with the lowest tier
DeletedRecordLow(b) ==
    [path |-> b.path, change |-> "deleted", severity |-> "low"]

DeletedRecord(b) ==
    [path |-> b.path, change |-> "deleted", severity |-> AssessFileRisk(b.path)]

RECURSIVE NewOrModified(_, _, _)
\* first loop (lines 215-234), from entry k of current_snapshot on
NewOrModified(baseline_snapshot, current_snapshot, k) ==
    IF k > Len(current_snapshot) THEN <<>>
    ELSE LET e == current_snapshot[k]
             rest == NewOrModified(baseline_snapshot, current_snapshot, k + 1)
         IN IF e.path \notin Keys(baseline_snapshot)
            THEN <<NewRecord(e)>> \o rest
            ELSE IF e.hash # Entry(baseline_snapshot, e.path).hash
            THEN <<ModifiedRecord(e, Entry(baseline_snapshot, e.path))>> \o rest
            ELSE rest

RECURSIVE Deleted(_, _, _)
\* second loop (lines 237-244), from entry k of baseline_snapshot on
Deleted(baseline_snapshot, current_snapshot, k) ==
    IF k > Len(baseline_snapshot) THEN <<>>
    ELSE LET b == baseline_snapshot[k]
             rest == Deleted(baseline_snapshot, current_snapshot, k + 1)
         IN IF b.path \notin Keys(current_snapshot)
            THEN <<DeletedRecord(b)>> \o rest
            ELSE rest

\* mutant: entries are compared as a whole (hash, size and modification time)
CompareWholeEntries(baseline_snapshot, current_snapshot) ==
    LET RECURSIVE Loop(_)
        Loop(k) ==
            IF k > Len(current_snapshot) THEN <<>>
            ELSE LET e == current_snapshot[k] IN
                 IF e.path \notin Keys(baseline_snapshot)
                 THEN <<NewRecord(e)>> \o Loop(k + 1)
                 ELSE IF e # Entry(baseline_snapshot, e.path)
                 THEN <<ModifiedRecord(e, Entry(baseline_snapshot, e.path))>>
                      \o Loop(k + 1)
                 ELSE Loop(k + 1)
    IN Loop(1) \o Deleted(baseline_snapshot, current_snapshot, 1)

\* mutant: the fingerprint test is inverted (== for !=)
CompareInverted(baseline_snapshot, current_snapshot) ==
    LET RECURSIVE Loop(_)
        Loop(k) ==
            IF k > Len(current_snapshot) THEN <<>>
            ELSE LET e == current_snapshot[k] IN
                 IF e.path \notin Keys(baseline_snapshot)
                 THEN <<NewRecord(e)>> \o Loop(k + 1)
                 ELSE IF e.hash = Entry(baseline_snapshot, e.path).hash
                 THEN <<ModifiedRecord(e, Entry(baseline_snapshot, e.path))>>
                      \o Loop(k + 1)
                 ELSE Loop(k + 1)
    IN Loop(1) \o Deleted(baseline_snapshot, current_snapshot, 1)

\* mutant: the loop over the baseline (deleted files) is missing
CompareWithoutDeleted(baseline_snapshot, current_snapshot) ==
    NewOrModified(baseline_snapshot, current_snapshot, 1)

CompareWithBaseline(baseline_snapshot, current_snapshot) ==
    NewOrModified(baseline_snapshot, current_snapshot, 1)
        \o Deleted(baseline_snapshot, current_snapshot, 1)

-----------------------------------------------------------------------------
(* Severity aggregator: line 162 and _calculate_severity                   *)

Min(a, b) == IF a <= b THEN a ELSE b

CountSeverity(changes, tier) ==
    Cardinality({k \in 1..Len(changes) : changes[k].severity = tier})

\* mutant: the deduction is not capped
BaselineScoreUncapped(changes) == 100 - Len(changes) * 2

BaselineScore(changes) == 100 - Min(Len(changes) * 2, 30)

\* mutant: the total-count rule uses > instead of >=
CalculateSeverityStrictCount(changes) ==
    IF Len(changes) = 0 THEN "low"
    ELSE LET high_severity_count == CountSeverity(changes, "high")
             medium_severity_count == CountSeverity(changes, "medium")
         IN IF high_severity_count >= 3 \/ Len(changes) > 10 THEN "high"
            ELSE IF high_severity_count >= 1 \/ medium_severity_count >= 3
            THEN "medium"
            ELSE "low"

CalculateSeverity(changes) ==
    IF Len(changes) = 0 THEN "low"
    ELSE LET high_severity_count == CountSeverity(changes, "high")
             medium_severity_count == CountSeverity(changes, "medium")
         IN IF high_severity_count >= 3 \/ Len(changes) >= 10 THEN "high"
            ELSE IF high_severity_count >= 1 \/ medium_severity_count >= 3
            THEN "medium"
            ELSE "low"

-----------------------------------------------------------------------------
(* The world the scanner runs in                                           *)

MaxJobs == 2        \* start_scan invocations in one behaviour
MaxFsOps == 1       \* changes made to the file system in one behaviour

FileBudget == 500   \* "if files_scanned >= 500" (lines 118, 141)

Hosts == {"WIN-SRV-01", "WIN-SRV-02"}

DataRoot == "/data"
ProgRoot == "C:\\Program Files"
ProgDataRoot == "C:\\ProgramData"
\* a directory of DataRoot given as a root of its own
TempRoot == "/data/Temp"
\* a root whose first directory holds one file less than the budget
BulkRoot == "/bulk"
\* an element of the JSON array scan_paths that is no path (null, an object)
NotAPath == "<json:null>"

\* scan_paths when the caller gives none (lines 52-59)
DefaultScanPaths ==
    <<"C:\\Windows\\System32", "C:\\Windows\\System32\\drivers",
      "C:\\Program Files", "C:\\Users\\Public", "C:\\ProgramData">>

\* the scan_paths arguments tried (create_baseline covers "none given")
ScanPathInputs ==
    {<<DataRoot>>, <<DataRoot, NotAPath>>}

\* directories of each root in os.walk order (top-down), with the file
\* names that may exist in them
\* `bulk` further files of a directory never change: only their number
\* matters
Layout(root) ==
    IF root = DataRoot
    THEN <<[rel |-> <<>>, files |-> <<"a.txt">>, bulk |-> 0],
           [rel |-> <<"Temp">>, files |-> <<"x.bin">>, bulk |-> 0]>>
    ELSE IF root = TempRoot
    THEN <<[rel |-> <<>>, files |-> <<"x.bin">>, bulk |-> 0]>>
    ELSE IF root = BulkRoot
    THEN <<[rel |-> <<>>, files |-> <<>>, bulk |-> FileBudget - 1],
           [rel |-> <<"sub">>, files |-> <<>>, bulk |-> 3]>>
    ELSE IF root = ProgRoot
    THEN <<[rel |-> <<>>, files |-> <<"app.exe">>, bulk |-> 0]>>
    ELSE IF root = ProgDataRoot
    THEN <<[rel |-> <<>>, files |-> <<>>, bulk |-> 0]>>
    ELSE <<>>

FsRoots == {DataRoot, ProgRoot, ProgDataRoot}
RootOf(name) == IF name = "app.exe" THEN ProgRoot ELSE DataRoot
FileNames == {"a.txt", "x.bin", "app.exe"}
Contents == {"alpha", "bravo!"}

Absent == [present |-> FALSE]
\* stat: "ok", or the exception lines 127-132 raise for the file: "OSError"
\* from os.stat, "ValueError" from datetime.fromtimestamp(stat.st_mtime)
\* endless: reading the file never reaches its end (a device such as
\* /dev/zero, a pipe nobody writes to)
FileState(c, t, r) ==
    [present |-> TRUE, content |-> c, mtime |-> t, readable |-> r,
     stat |-> "ok", endless |-> FALSE]

\* how a loop ended that is still inside the read loop of lines 191-194
Reading == "<reading>"

\* SHA-256 of the content: one digest per content
HashOf(content) == "sha256:" \o content

\* mutant: the separator is the slash on every platform
JoinPosix(a, b) ==
    IF Len(a) = 0 \/ SubSeq(a, Len(a), Len(a)) = "/" THEN a \o b
    ELSE a \o "/" \o b

\* os.path.join(a, b) for a relative b
Join(a, b) ==
    LET last == IF Len(a) = 0 THEN "" ELSE SubSeq(a, Len(a), Len(a))
        ends == IF sep = "\\" THEN last \in {"\\", "/", ":"} ELSE last = "/"
    IN IF Len(a) = 0 \/ ends THEN a \o b ELSE a \o sep \o b

RECURSIVE JoinAll(_, _, _)
JoinAll(top, rel, k) ==
    IF k > Len(rel) THEN top ELSE JoinAll(Join(top, rel[k]), rel, k + 1)

\* the dirpath os.walk yields for a directory of the layout
DirPath(root, dir) == JoinAll(root, dir.rel, 1)

\* the names of the files the layout has under a root
NamesUnder(root) ==
    {name \in FileNames :
        \E k \in 1..Len(Layout(root)) :
            \E i \in 1..Len(Layout(root)[k].files) :
                Layout(root)[k].files[i] = name}

\* the path under which os.walk of the root records a file of the layout
PathVia(root, name) ==
    LET dirs == Layout(root)
        d == CHOOSE k \in 1..Len(dirs) :
                 \E i \in 1..Len(dirs[k].files) : dirs[k].files[i] = name
    IN Join(DirPath(root, dirs[d]), name)

FilePath(name) == PathVia(RootOf(name), name)

\* os.path.exists(scan_path): a root directory, or a file (os.walk of a
\* file yields nothing)
PathExists(scan_path) ==
    \/ scan_path \in fs.roots
    \/ \E name \in FileNames :
          /\ RootOf(name) \in fs.roots
          /\ fs.files[name].present
          /\ FilePath(name) = scan_path

-----------------------------------------------------------------------------
(* Snapshot engine: the body of the loop over scan_paths (lines 116-146)   *)

\* mutant: the digest is computed although the file cannot be read
CalculateFileHashAlways(file) == HashOf(file.content)

\* _calculate_file_hash: the digest, or "hash_failed" when the read fails
CalculateFileHash(file) ==
    IF file.readable THEN HashOf(file.content) ELSE "hash_failed"

RECURSIVE ScanFiles(_, _, _, _)
\* lines 121-139: the files of one directory, from the k-th name on; an
\* OSError skips the file (lines 137-139), any other exception leaves the
\* loops for the handler of line 144
ScanFiles(dirpath, names, k, acc) ==
    IF k > Len(names) THEN acc
    ELSE LET file == fs.files[names[k]] IN
         IF ~file.present THEN ScanFiles(dirpath, names, k + 1, acc)
         ELSE IF file.endless THEN [acc EXCEPT !.raised = Reading]
         ELSE IF file.stat = "OSError"
         THEN ScanFiles(dirpath, names, k + 1, acc)
         ELSE IF file.stat # "ok" THEN [acc EXCEPT !.raised = file.stat]
         ELSE ScanFiles(dirpath, names, k + 1,
                [acc EXCEPT
                   !.snapshot = Put(@, [path |-> Join(dirpath, names[k]),
                                        hash |-> CalculateFileHash(file),
                                        size |-> Len(file.content),
                                        modified |-> file.mtime]),
                   !.files_scanned = @ + 1])

BulkName(i) == "f" \o ToString(i)
BulkContent == "alpha"

\* lines 121-139 for the n further files of a directory: what Put gives
\* when applied to each of them in turn (a path already recorded keeps its
\* position, and its entry, the content being the same)
ScanBulk(dirpath, n, acc) ==
    LET keys == Keys(acc.snapshot)
        entries == [i \in 1..n |-> [path |-> Join(dirpath, BulkName(i)),
                                    hash |-> HashOf(BulkContent),
                                    size |-> Len(BulkContent),
                                    modified |-> 0]]
    IN IF n = 0 \/ acc.raised # None THEN acc
       ELSE [acc EXCEPT
               !.snapshot = @ \o SelectSeq(entries,
                                           LAMBDA e : e.path \notin keys),
               !.files_scanned = @ + n]

RECURSIVE WalkDirs(_, _, _)
\* lines 116-142: os.walk(scan_path) from the d-th directory on
WalkDirs(root, d, acc) ==
    IF d > Len(Layout(root)) THEN acc
    ELSE IF acc.files_scanned >= FileBudget THEN acc
    ELSE LET dir == Layout(root)[d]
             dirpath == DirPath(root, dir)
             after == ScanBulk(dirpath, dir.bulk,
                               ScanFiles(dirpath, dir.files, 1, acc))
         IN IF after.raised # None THEN after
            ELSE IF after.files_scanned >= FileBudget THEN after
            ELSE WalkDirs(root, d + 1, after)

PathNotFound(scan_path) ==
    [path |-> scan_path, change |-> "path_not_found", severity |-> "low"]

-----------------------------------------------------------------------------
(* Timestamps: utils.common.get_timestamp                                  *)

\* datetime.isoformat() writes the microseconds only when they are not zero;
\* the clock ticks in quarters of a second
Fractions == <<"", ".250000", ".500000", ".750000">>

TwoDigits(n) == IF n < 10 THEN "0" \o ToString(n) ELSE ToString(n)

\* datetime.utcnow().isoformat() + 'Z' at the instant `tick`
GetTimestamp(tick) ==
    "2024-01-01T00:00:" \o TwoDigits(tick \div Len(Fractions))
        \o Fractions[(tick % Len(Fractions)) + 1] \o "Z"

\* the instant a timestamp was taken at
TickOf(timestamp) == CHOOSE tick \in 0..clock : GetTimestamp(tick) = timestamp

\* ord(c) for the characters of a timestamp
Ord(c) ==
    CASE c = "-" -> 45 [] c = "." -> 46 [] c = "0" -> 48 [] c = "1" -> 49
      [] c = "2" -> 50 [] c = "3" -> 51 [] c = "4" -> 52 [] c = "5" -> 53
      [] c = "6" -> 54 [] c = "7" -> 55 [] c = "8" -> 56 [] c = "9" -> 57
      [] c = ":" -> 58 [] c = "T" -> 84 [] c = "Z" -> 90

RECURSIVE StrGreater(_, _)
\* a > b on Python strings
StrGreater(a, b) ==
    IF Len(a) = 0 THEN FALSE
    ELSE IF Len(b) = 0 THEN TRUE
    ELSE LET x == Ord(SubSeq(a, 1, 1))
             y == Ord(SubSeq(b, 1, 1))
         IN IF x # y THEN x > y
            ELSE StrGreater(SubSeq(a, 2, Len(a)), SubSeq(b, 2, Len(b)))

-----------------------------------------------------------------------------
(* Job manager: start_scan, _execute_scan, create_baseline                 *)

\* mutant: every call draws the same id
JobIdReused(n) == "scan-1"

\* f"scan-{uuid.uuid4().hex[:8]}": the n-th id drawn, taken to differ from
\* the ids drawn before
JobId(n) == "scan-" \o ToString(n)

\* the frame's return value while the call has not returned
NoReturn == [job_id |-> None, status |-> None]

Idle == \A j \in DOMAIN calls : calls[j].pc = "done"

\* lines 49-72, scan_paths being the list given or the default list; the
\* frame also notes whether the host had a baseline when the call began
\* (had_baseline, a history field no statement of the code reads)
Begin(host_id, scan_paths, via) ==
    LET job_id == JobId(Cardinality(DOMAIN calls) + 1)
    IN /\ Cardinality(DOMAIN calls) < MaxJobs
       /\ scans' = (job_id :> [job_id |-> job_id,
                               host |-> host_id,
                               status |-> "running",
                               timestamp |-> GetTimestamp(clock),
                               scan_paths |-> scan_paths,
                               baseline_score |-> 100,
                               changes |-> <<>>,
                               files_scanned |-> 0,
                               severity |-> "low"]) @@ scans
       /\ clock' = clock + 1
       /\ calls' = (job_id :> [pc |-> "scan",
                               via |-> via,
                               host_id |-> host_id,
                               scan_paths |-> scan_paths,
                               current_snapshot |-> <<>>,
                               files_scanned |-> 0,
                               changes |-> <<>>,
                               exc |-> None,
                               had_baseline |-> host_id \in DOMAIN baselines,
                               ret |-> NoReturn]) @@ calls
       /\ UNCHANGED <<sep, fs, baselines, inp, reads>>

StartScan(host_id, scan_paths) ==
    Idle /\ Begin(host_id, scan_paths, "start_scan")

\* line 363: start_scan(host_id) without scan_paths takes the default list
CreateBaseline(host_id) ==
    Idle /\ Begin(host_id, DefaultScanPaths, "create_baseline")

Goto(j, fields) == calls' = [calls EXCEPT ![j] = fields @@ @]

\* str(e) of the TypeError os.path.exists raises for a value that is no path
StatTypeError ==
    "stat: path should be string, bytes, os.PathLike or integer, not NoneType"

RECURSIVE ScanPaths(_, _, _)
\* lines 104-146: the loop over scan_paths from the i-th path on; acc holds
\* the locals current_snapshot, files_scanned, changes and the exception
\* that ended the loop (None when it ran to its end)
ScanPaths(scan_paths, i, acc) ==
    IF i > Len(scan_paths) THEN acc
    ELSE LET scan_path == scan_paths[i] IN
         IF scan_path = NotAPath
         THEN [acc EXCEPT !.exc = StatTypeError]
         ELSE IF ~PathExists(scan_path)
         THEN ScanPaths(scan_paths, i + 1,
                [acc EXCEPT !.changes = Append(@, PathNotFound(scan_path))])
         ELSE LET \* lines 144-146: whatever the walk raised is logged and
              \* the loop goes on with the next path
              walked == WalkDirs(scan_path, 1,
                               [snapshot |-> acc.current_snapshot,
                                files_scanned |-> acc.files_scanned,
                                raised |-> None])
              IN IF walked.raised = Reading
                 THEN [acc EXCEPT !.current_snapshot = walked.snapshot,
                                  !.files_scanned = walked.files_scanned,
                                  !.exc = Reading]
                 ELSE ScanPaths(scan_paths, i + 1,
                        [acc EXCEPT !.current_snapshot = walked.snapshot,
                                    !.files_scanned = walked.files_scanned])

\* lines 99-146: the traversal of all roots
Traverse(j) ==
    LET c == calls[j]
        out == ScanPaths(c.scan_paths, 1,
                         [current_snapshot |-> <<>>, files_scanned |-> 0,
                          changes |-> <<>>, exc |-> None])
    IN /\ c.pc = "scan"
       /\ out.exc # Reading
       /\ Goto(j, [pc |-> IF out.exc = None THEN "baseline" ELSE "except"] @@ out)
       /\ UNCHANGED <<sep, fs, clock, scans, baselines, inp, reads>>

\* lines 191-194 on a file without end: one more chunk is read and hashed,
\* the traversal stays where it is (`chunks` keeps the parity of the count)
ReadChunk(j) ==
    LET c == calls[j]
        out == ScanPaths(c.scan_paths, 1,
                         [current_snapshot |-> <<>>, files_scanned |-> 0,
                          changes |-> <<>>, exc |-> None])
    IN /\ c.pc = "scan"
       /\ out.exc = Reading
       /\ Goto(j, [chunks |-> IF "chunks" \in DOMAIN c THEN 1 - c.chunks ELSE 1])
       /\ UNCHANGED <<sep, fs, clock, scans, baselines, inp, reads>>

\* mutant: after the diff the current snapshot replaces the stored baseline
CompareAndRebaseline(j) ==
    LET c == calls[j] IN
    /\ c.pc = "baseline"
    /\ c.host_id \in DOMAIN baselines
    /\ Goto(j, [pc |-> "finalize",
                changes |-> CompareWithBaseline(baselines[c.host_id].snapshot,
                                                c.current_snapshot)])
    /\ baselines' = [baselines EXCEPT ![c.host_id].snapshot = c.current_snapshot,
                                      ![c.host_id].file_count = Len(c.current_snapshot)]
    /\ UNCHANGED <<sep, fs, clock, scans, inp, reads>>

\* lines 149-150: the baseline exists, the diff replaces `changes`
Compare(j) ==
    LET c == calls[j] IN
    /\ c.pc = "baseline"
    /\ c.host_id \in DOMAIN baselines
    /\ Goto(j, [pc |-> "finalize",
                changes |-> CompareWithBaseline(baselines[c.host_id].snapshot,
                                                c.current_snapshot)])
    /\ UNCHANGED <<sep, fs, clock, scans, baselines, inp, reads>>

\* mutant: the first scan also starts from an empty change list
StoreBaselineClearChanges(j) ==
    LET c == calls[j] IN
    /\ c.pc = "baseline"
    /\ c.host_id \notin DOMAIN baselines
    /\ baselines' = (c.host_id :> [host_id |-> c.host_id,
                                   created_at |-> GetTimestamp(clock),
                                   snapshot |-> c.current_snapshot,
                                   file_count |-> Len(c.current_snapshot)])
                    @@ baselines
    /\ clock' = clock + 1
    /\ Goto(j, [pc |-> "finalize", changes |-> <<>>])
    /\ UNCHANGED <<sep, fs, scans, inp, reads>>

\* lines 151-159: first scan of the host, the snapshot becomes its baseline
\* mutant: an empty snapshot is not stored as a baseline
StoreBaselineUnlessEmpty(j) ==
    LET c == calls[j] IN
    /\ c.pc = "baseline"
    /\ c.host_id \notin DOMAIN baselines
    /\ baselines' = IF c.current_snapshot = <<>> THEN baselines
                    ELSE (c.host_id :> [host_id |-> c.host_id,
                                        created_at |-> GetTimestamp(clock),
                                        snapshot |-> c.current_snapshot,
                                        file_count |-> Len(c.current_snapshot)])
                         @@ baselines
    /\ clock' = clock + 1
    /\ Goto(j, [pc |-> "finalize"])
    /\ UNCHANGED <<sep, fs, scans, inp, reads>>

StoreBaseline(j) ==
    LET c == calls[j] IN
    /\ c.pc = "baseline"
    /\ c.host_id \notin DOMAIN baselines
    /\ baselines' = (c.host_id :> [host_id |-> c.host_id,
                                   created_at |-> GetTimestamp(clock),
                                   snapshot |-> c.current_snapshot,
                                   file_count |-> Len(c.current_snapshot)])
                    @@ baselines
    /\ clock' = clock + 1
    /\ Goto(j, [pc |-> "finalize"])
    /\ UNCHANGED <<sep, fs, scans, inp, reads>>

\* mutant: an exception is raised after the job was updated (line 175)
FinalizeThenRaise(j) ==
    LET c == calls[j] IN
    /\ c.pc = "finalize"
    /\ scans' = [scans EXCEPT ![j] =
                    [status |-> "completed",
                     files_scanned |-> c.files_scanned,
                     changes |-> c.changes,
                     baseline_score |-> BaselineScore(c.changes),
                     severity |-> CalculateSeverity(c.changes),
                     completed_at |-> GetTimestamp(clock)] @@ @]
    /\ clock' = clock + 1
    /\ Goto(j, [pc |-> "except", exc |-> "logging failed"])
    /\ UNCHANGED <<sep, fs, baselines, inp, reads>>

\* mutant: the update leaves the severity of the record as it was
FinalizeWithoutSeverity(j) ==
    LET c == calls[j] IN
    /\ c.pc = "finalize"
    /\ scans' = [scans EXCEPT ![j] =
                    [status |-> "completed",
                     files_scanned |-> c.files_scanned,
                     changes |-> c.changes,
                     baseline_score |-> BaselineScore(c.changes),
                     completed_at |-> GetTimestamp(clock)] @@ @]
    /\ clock' = clock + 1
    /\ Goto(j, [pc |-> "return"])
    /\ UNCHANGED <<sep, fs, baselines, inp, reads>>

\* lines 162-173
Finalize(j) ==
    LET c == calls[j] IN
    /\ c.pc = "finalize"
    /\ scans' = [scans EXCEPT ![j] =
                    [status |-> "completed",
                     files_scanned |-> c.files_scanned,
                     changes |-> c.changes,
                     baseline_score |-> BaselineScore(c.changes),
                     severity |-> CalculateSeverity(c.changes),
                     completed_at |-> GetTimestamp(clock)] @@ @]
    /\ clock' = clock + 1
    /\ Goto(j, [pc |-> "return"])
    /\ UNCHANGED <<sep, fs, baselines, inp, reads>>

\* mutant: the handler logs the exception and leaves the status alone
CatchFailedKeepsStatus(j) ==
    /\ calls[j].pc = "except"
    /\ Goto(j, [pc |-> "except_error"])
    /\ UNCHANGED <<sep, fs, clock, scans, baselines, inp, reads>>

\* lines 79-81: the exception is caught, the job is marked failed
CatchFailed(j) ==
    /\ calls[j].pc = "except"
    /\ scans' = [scans EXCEPT ![j] = [status |-> "failed"] @@ @]
    /\ Goto(j, [pc |-> "except_error"])
    /\ UNCHANGED <<sep, fs, clock, baselines, inp, reads>>

\* mutant: the handler also records how many files were scanned
CatchErrorWithCount(j) ==
    /\ calls[j].pc = "except_error"
    /\ scans' = [scans EXCEPT ![j] = [error |-> calls[j].exc,
                                      files_scanned |-> calls[j].files_scanned]
                                         @@ @]
    /\ Goto(j, [pc |-> "return"])
    /\ UNCHANGED <<sep, fs, clock, baselines, inp, reads>>

\* line 82
CatchError(j) ==
    /\ calls[j].pc = "except_error"
    /\ scans' = [scans EXCEPT ![j] = [error |-> calls[j].exc] @@ @]
    /\ Goto(j, [pc |-> "return"])
    /\ UNCHANGED <<sep, fs, clock, baselines, inp, reads>>

\* lines 84-88, and lines 365-369 when entered through create_baseline
Return(j) ==
    LET c == calls[j] IN
    /\ c.pc = "return"
    /\ Goto(j, [pc |-> "done",
                ret |-> IF c.via = "start_scan"
                        THEN [job_id |-> j, status |-> scans[j].status,
                              message |-> "Scan initiated for " \o c.host_id]
                        ELSE [status |-> "success",
                              message |-> "Baseline creation initiated for "
                                          \o c.host_id,
                              job_id |-> j]])
    /\ UNCHANGED <<sep, fs, clock, scans, baselines, inp, reads>>

-----------------------------------------------------------------------------
(* The file system changes under the scanner                               *)

\* a traversal sees one state of the file system: changes fall between
\* requests
FsOp(roots, files) ==
    /\ fs.ops < MaxFsOps
    /\ Idle
    /\ fs' = [roots |-> roots, files |-> files, ops |-> fs.ops + 1]
    /\ UNCHANGED <<sep, clock, scans, baselines, calls, inp, reads>>

WriteFile(name, content) ==
    /\ RootOf(name) \in fs.roots
    /\ FsOp(fs.roots,
            [fs.files EXCEPT ![name] = FileState(content, fs.ops + 1, TRUE)])

DeleteFile(name) ==
    /\ fs.files[name].present
    /\ FsOp(fs.roots, [fs.files EXCEPT ![name] = Absent])

\* the file stays but can no longer be opened for reading
LockFile(name) ==
    /\ fs.files[name].present
    /\ fs.files[name].readable
    /\ FsOp(fs.roots, [fs.files EXCEPT ![name].readable = FALSE])

RemoveRoot(root) ==
    /\ root \in fs.roots
    /\ FsOp(fs.roots \ {root},
            [n \in FileNames |-> IF RootOf(n) = root THEN Absent ELSE fs.files[n]])

CreateRoot(root) ==
    /\ root \notin fs.roots
    /\ FsOp(fs.roots \cup {root}, fs.files)

-----------------------------------------------------------------------------
(* Specification: the service handles one request at a time                *)

Init ==
    /\ sep \in {"/", "\\"}
    /\ fs = [roots |-> {DataRoot, ProgRoot},
             files |-> [n \in FileNames |-> FileState("alpha", 0, TRUE)],
             ops |-> 0]
    /\ clock = 1
    /\ scans = <<>>
    /\ baselines = <<>>
    /\ calls = <<>>
    /\ inp = [op |-> "none"]
    /\ reads = <<>>

Next ==
    \/ \E h \in Hosts, p \in ScanPathInputs : StartScan(h, p)
    \/ \E h \in Hosts : CreateBaseline(h)
    \/ \E j \in DOMAIN calls : Traverse(j)
    \/ \E j \in DOMAIN calls : Compare(j)
    \/ \E j \in DOMAIN calls : StoreBaseline(j)
    \/ \E j \in DOMAIN calls : Finalize(j)
    \/ \E j \in DOMAIN calls : CatchFailed(j)
    \/ \E j \in DOMAIN calls : CatchError(j)
    \/ \E j \in DOMAIN calls : Return(j)
    \/ \E n \in FileNames, c \in Contents : WriteFile(n, c)
    \/ \E n \in FileNames : DeleteFile(n)
    \/ \E n \in FileNames : LockFile(n)
    \/ \E r \in FsRoots : RemoveRoot(r)
    \/ \E r \in FsRoots : CreateRoot(r)

Spec == Init /\ [][Next]_vars

-----------------------------------------------------------------------------
(* Properties of the service                                               *)

\* the call has run _execute_scan to its end without an exception
Completed(j) == calls[j].pc \in {"return", "done"} /\ calls[j].exc = None

\* the roots of the call's scan_paths that do not exist, in order
MissingRoots(j) == SelectSeq(calls[j].scan_paths, LAMBDA p : ~PathExists(p))

\* the files present under the roots the call scanned
FilesUnder(j) ==
    {n \in FileNames :
        /\ fs.files[n].present
        /\ \E k \in 1..Len(calls[j].scan_paths) :
             calls[j].scan_paths[k] = RootOf(n) /\ PathExists(RootOf(n))}

C2_FirstScanNoChanges ==
    \A j \in DOMAIN calls :
        (Completed(j) /\ ~calls[j].had_baseline) =>
            /\ calls[j].host_id \in DOMAIN baselines
            /\ baselines[calls[j].host_id].snapshot = calls[j].current_snapshot
            /\ scans[j].status = "completed"
            /\ scans[j].changes = <<>>
            /\ scans[j].baseline_score = 100
            /\ scans[j].severity = "low"

\* C2 amended: such a scan stores its snapshot as the baseline and completes
\* with one path_not_found record of tier low per missing root, in the order
\* of scan_paths, and nothing else; the score and the severity follow from
\* that list (no changes, 100 and low when every root exists)
C2_FirstScan ==
    \A j \in DOMAIN calls :
        (calls[j].pc = "return" /\ calls[j].exc = None /\ ~calls[j].had_baseline) =>
            LET missing == MissingRoots(j)
                n == Len(missing)
                b == baselines[calls[j].host_id]
            IN /\ calls[j].host_id \in DOMAIN baselines
               /\ b.snapshot = calls[j].current_snapshot
               /\ b.file_count = Cardinality(FilesUnder(j))
               /\ Cardinality(Keys(b.snapshot)) = Cardinality(FilesUnder(j))
               /\ scans[j].status = "completed"
               /\ scans[j].changes =
                    [k \in 1..n |-> [path |-> missing[k],
                                     change |-> "path_not_found",
                                     severity |-> "low"]]
               /\ scans[j].baseline_score = 100 - (IF n < 15 THEN 2 * n ELSE 30)
               /\ scans[j].severity = (IF n >= 10 THEN "high" ELSE "low")
               /\ n = 0 => /\ scans[j].changes = <<>>
                           /\ scans[j].baseline_score = 100

\* a first scan over a missing and an existing root has just completed
C2_Witness ==
    \E j \in DOMAIN calls :
        /\ calls[j].pc = "return"
        /\ calls[j].exc = None
        /\ ~calls[j].had_baseline
        /\ Len(MissingRoots(j)) > 0
        /\ Len(calls[j].current_snapshot) > 0

\* C4: a scan whose snapshot equals the stored baseline snapshot of its host
\* completes with no changes, score 100 and severity low
C4_UnchangedRescan ==
    \A j \in DOMAIN calls :
        (/\ Completed(j)
         /\ calls[j].had_baseline
         /\ calls[j].current_snapshot = baselines[calls[j].host_id].snapshot) =>
            /\ scans[j].status = "completed"
            /\ scans[j].changes = <<>>
            /\ scans[j].baseline_score = 100
            /\ scans[j].severity = "low"

\* a host was scanned twice over the same files, unchanged in between
C4_Witness ==
    \E j \in DOMAIN calls :
        /\ calls[j].pc = "done"
        /\ calls[j].had_baseline
        /\ Len(calls[j].current_snapshot) > 0
        /\ calls[j].current_snapshot = baselines[calls[j].host_id].snapshot
        /\ scans[j].changes = <<>>

\* C5 as claimed: every scan that raises nothing completes, and for every
\* root missing at scan time its changes hold a path_not_found record of
\* tier low, on a first scan and on a scan against a baseline alike
C5_MissingRootReported ==
    \A j \in DOMAIN calls :
        (calls[j].pc = "return" /\ calls[j].exc = None) =>
            /\ scans[j].status = "completed"
            /\ \A k \in 1..Len(calls[j].scan_paths) :
                 ~PathExists(calls[j].scan_paths[k]) =>
                    \E r \in 1..Len(scans[j].changes) :
                        scans[j].changes[r] = PathNotFound(calls[j].scan_paths[k])

\* the fields of a job record that hold the result of its scan
ResultFields(job) == [f \in DOMAIN job \ {"status", "error"} |-> job[f]]

C7_FailureRecorded ==
    \A j \in DOMAIN calls :
        (calls[j].exc # None /\ calls[j].pc = "done") =>
            /\ calls[j].ret # NoReturn
            /\ calls[j].ret.job_id = j
            /\ calls[j].ret.status = "failed"
            /\ scans[j].status = "failed"
            /\ "error" \in DOMAIN scans[j]
            /\ scans[j].error = calls[j].exc

\* a scan whose second root is no path has returned
C7_Witness ==
    \E j \in DOMAIN calls :
        /\ calls[j].exc # None
        /\ calls[j].pc = "done"
        /\ calls[j].ret.status = "failed"
        /\ Len(calls[j].current_snapshot) > 0

-----------------------------------------------------------------------------
(* The diff engine on its own: _compare_with_baseline over drawn snapshots *)

MaxDiffPaths == 3   \* paths a drawn snapshot may hold

DiffPathPool ==
    <<"C:\\Temp\\x.bin", "/data/a.txt", "C:\\Users\\bob\\n.doc",
      "C:\\Program Files\\app.exe", "/etc/hosts">>

DiffIndexes == 1..Min(MaxDiffPaths, Len(DiffPathPool))

\* what a snapshot may record for a path
BaselineEntries(p) ==
    {[path |-> p, hash |-> h, size |-> 5, modified |-> 0] :
        h \in {HashOf("alpha"), "hash_failed"}}
CurrentEntries(p) ==
    {[path |-> p, hash |-> h, size |-> m.size, modified |-> m.modified] :
        h \in {HashOf("alpha"), "hash_failed"},
        m \in {[size |-> 5, modified |-> 0], [size |-> 6, modified |-> 1]}}

RECURSIVE SnapshotFrom(_, _, _)
\* the dict filled in the order idxs, pick[k] being entry k or Absent
SnapshotFrom(pick, idxs, n) ==
    IF n > Len(idxs) THEN <<>>
    ELSE IF pick[idxs[n]] = Absent THEN SnapshotFrom(pick, idxs, n + 1)
    ELSE <<pick[idxs[n]]>> \o SnapshotFrom(pick, idxs, n + 1)

Ascending == [k \in DiffIndexes |-> k]
Descending == [k \in DiffIndexes |-> Cardinality(DiffIndexes) + 1 - k]

\* one choice per pool path: absent, or one of the entries for that path
Picks(entries(_)) ==
    {pick \in [DiffIndexes ->
                 {Absent} \cup UNION {entries(DiffPathPool[k]) : k \in DiffIndexes}] :
        \A k \in DiffIndexes :
            pick[k] = Absent \/ pick[k].path = DiffPathPool[k]}

BaselineSnapshots ==
    {SnapshotFrom(pick, Ascending, 1) : pick \in Picks(BaselineEntries)}

CurrentSnapshots ==
    {SnapshotFrom(pick, ord, 1) :
        pick \in Picks(CurrentEntries), ord \in {Ascending, Descending}}

IdleWorld ==
    /\ sep = "\\"
    /\ fs = [roots |-> {}, files |-> [n \in FileNames |-> Absent], ops |-> 0]
    /\ clock = 1
    /\ scans = <<>>
    /\ baselines = <<>>
    /\ calls = <<>>
    /\ reads = <<>>

InitDiff ==
    /\ IdleWorld
    /\ inp \in [op : {"diff"}, baseline : BaselineSnapshots,
                current : CurrentSnapshots, done : {FALSE}, out : {<<>>}]

\* changes = self._compare_with_baseline(host_id, current_snapshot)
RunDiff ==
    /\ inp.op = "diff"
    /\ ~inp.done
    /\ inp' = [inp EXCEPT !.done = TRUE,
                          !.out = CompareWithBaseline(inp.baseline, inp.current)]
    /\ UNCHANGED <<sep, fs, clock, scans, baselines, calls, reads>>

NextDiff == RunDiff

SpecDiff == InitDiff /\ [][NextDiff]_vars

HashIn(snapshot, p) == Entry(snapshot, p).hash

RecordsFor(changes, p) == {k \in 1..Len(changes) : changes[k].path = p}

\* C3: the diff holds exactly one record per path that is new, modified
\* (fingerprints differ) or deleted, of that kind and with the fingerprints
\* of the two snapshots, and no record for any other path; size and
\* modification time play no part
C3_DiffExact ==
    (inp.op = "diff" /\ inp.done) =>
        LET B == inp.baseline
            S == inp.current
            out == inp.out
            changed == {p \in Keys(S) \cup Keys(B) :
                          \/ p \notin Keys(B)
                          \/ p \notin Keys(S)
                          \/ HashIn(S, p) # HashIn(B, p)}
        IN /\ \A k \in 1..Len(out) : out[k].path \in changed
           /\ \A p \in changed : Cardinality(RecordsFor(out, p)) = 1
           /\ Len(out) = Cardinality(changed)
           /\ \A k \in 1..Len(out) :
                LET r == out[k] IN
                /\ r.path \in Keys(S) \ Keys(B) =>
                     r.change = "new" /\ r.hash = HashIn(S, r.path)
                /\ r.path \in Keys(S) \cap Keys(B) =>
                     /\ r.change = "modified"
                     /\ r.hash = HashIn(S, r.path)
                     /\ r.previous_hash = HashIn(B, r.path)
                /\ r.path \in Keys(B) \ Keys(S) => r.change = "deleted"

\* a diff with a modified and a deleted record that leaves out a path whose
\* fingerprint is the same although its size and modification time differ
C3_Witness ==
    /\ inp.op = "diff"
    /\ inp.done
    /\ \E k \in 1..Len(inp.out) : inp.out[k].change = "modified"
    /\ \E k \in 1..Len(inp.out) : inp.out[k].change = "deleted"
    /\ \E p \in Keys(inp.baseline) \cap Keys(inp.current) :
         /\ Entry(inp.baseline, p) # Entry(inp.current, p)
         /\ RecordsFor(inp.out, p) = {}

-----------------------------------------------------------------------------
(* The severity aggregator on its own: line 162 and _calculate_severity    *)

MaxChanges == 16    \* records a drawn change list may hold

TierCounts ==
    {t \in (0..MaxChanges) \X (0..MaxChanges) \X (0..MaxChanges) :
        t[1] + t[2] + t[3] <= MaxChanges}

\* a change list with t[1] high, t[2] medium and t[3] low records, the high
\* ones first or last
ChangesFrom(t, high_first) ==
    LET n == t[1] + t[2] + t[3]
        tier(k) == IF high_first
                   THEN IF k <= t[1] THEN "high"
                        ELSE IF k <= t[1] + t[2] THEN "medium" ELSE "low"
                   ELSE IF k <= t[3] THEN "low"
                        ELSE IF k <= t[3] + t[2] THEN "medium" ELSE "high"
    IN [k \in 1..n |->
          [path |-> "/data/f" \o ToString(k), change |-> "deleted",
           severity |-> tier(k)]]

InitAggregate ==
    /\ IdleWorld
    /\ inp \in {[op |-> "aggregate", high |-> t[1], medium |-> t[2],
                 low |-> t[3], changes |-> ChangesFrom(t, hf), done |-> FALSE,
                 baseline_score |-> 100, severity |-> "low"] :
                    t \in TierCounts, hf \in BOOLEAN}

\* lines 162-163
RunAggregate ==
    /\ inp.op = "aggregate"
    /\ ~inp.done
    /\ inp' = [inp EXCEPT !.done = TRUE,
                          !.baseline_score = BaselineScore(inp.changes),
                          !.severity = CalculateSeverity(inp.changes)]
    /\ UNCHANGED <<sep, fs, clock, scans, baselines, calls, reads>>

NextAggregate == RunAggregate

SpecAggregate == InitAggregate /\ [][NextAggregate]_vars

\* C8: the score is 100 minus two points per change, the deduction capped at
\* 30: it lies in 70..100, is 100 for no change, 70 from 15 changes on, and
\* no prefix of the list scores lower than the list
C8_ScoreRule ==
    (inp.op = "aggregate" /\ inp.done) =>
        LET n == Len(inp.changes) IN
        /\ inp.baseline_score \in 70..100
        /\ n < 15 => inp.baseline_score = 100 - 2 * n
        /\ n >= 15 => inp.baseline_score = 70
        /\ n = 0 => inp.baseline_score = 100
        /\ \A k \in 0..n :
             BaselineScore(SubSeq(inp.changes, 1, k)) >= inp.baseline_score

\* a list of more than 15 changes scored 70
C8_Witness ==
    /\ inp.op = "aggregate"
    /\ inp.done
    /\ Len(inp.changes) > 15
    /\ inp.baseline_score = 70

\* C9: high iff at least 3 high-tier records or at least 10 records; else
\* medium iff at least 1 high-tier or at least 3 medium-tier records; else low
C9_SeverityRule ==
    (inp.op = "aggregate" /\ inp.done) =>
        LET n == inp.high + inp.medium + inp.low IN
        /\ inp.severity = "high" <=> (inp.high >= 3 \/ n >= 10)
        /\ inp.severity = "medium" <=>
             (~(inp.high >= 3 \/ n >= 10) /\ (inp.high >= 1 \/ inp.medium >= 3))
        /\ inp.severity = "low" <=>
             (~(inp.high >= 3 \/ n >= 10) /\ ~(inp.high >= 1 \/ inp.medium >= 3))
        /\ (inp.low = 10 /\ n = 10) => inp.severity = "high"
        /\ (inp.high = 2 /\ n = 7) => inp.severity = "medium"
        /\ n = 0 => inp.severity = "low"

\* ten changes, all of tier low, rated high
C9_Witness ==
    /\ inp.op = "aggregate"
    /\ inp.done
    /\ inp.low = 10
    /\ inp.high + inp.medium = 0
    /\ inp.severity = "high"

-----------------------------------------------------------------------------
(* The risk classifier on its own: _assess_file_risk over drawn paths      *)

MaxFragments == 2   \* fragments a drawn path is made of

\* path fragments, each in three spellings that differ in letter case only
FragmentPool ==
    <<<<"c:\\", "C:\\", "C:\\">>,
      <<"temp\\", "Temp\\", "TEMP\\">>,
      <<"users\\", "Users\\", "USERS\\">>,
      <<"program files\\", "Program Files\\", "PROGRAM FILES\\">>,
      <<"payload.exe", "Payload.exe", "PAYLOAD.EXE">>,
      <<"temp/", "Temp/", "TEMP/">>>>

RECURSIVE Spell(_, _, _)
\* the fragments kinds[n..] concatenated, each in the spelling cases[n]
Spell(kinds, cases, n) ==
    IF n > Len(kinds) THEN ""
    ELSE FragmentPool[kinds[n]][cases[n]] \o Spell(kinds, cases, n + 1)

InitClassify ==
    /\ IdleWorld
    /\ inp \in {[op |-> "classify", path |-> Spell(kinds, a, 1),
                 other |-> Spell(kinds, b, 1), done |-> FALSE,
                 tier |-> None, other_tier |-> None] :
                    kinds \in [1..MaxFragments -> 1..Len(FragmentPool)],
                    a \in [1..MaxFragments -> 1..3],
                    b \in [1..MaxFragments -> 1..3]}

\* severity = self._assess_file_risk(filepath), for both spellings
RunClassify ==
    /\ inp.op = "classify"
    /\ ~inp.done
    /\ inp' = [inp EXCEPT !.done = TRUE,
                          !.tier = AssessFileRisk(inp.path),
                          !.other_tier = AssessFileRisk(inp.other)]
    /\ UNCHANGED <<sep, fs, clock, scans, baselines, calls, reads>>

NextClassify == RunClassify

SpecClassify == InitClassify /\ [][NextClassify]_vars

SameLetter(x, y) ==
    \/ x = y
    \/ x \in DOMAIN UpperToLower /\ UpperToLower[x] = y
    \/ y \in DOMAIN UpperToLower /\ UpperToLower[y] = x

EqualUpToCase(a, b) ==
    /\ Len(a) = Len(b)
    /\ \A i \in 1..Len(a) : SameLetter(SubSeq(a, i, i), SubSeq(b, i, i))

OccursIgnoringCase(indicator, text) ==
    \E i \in 1..(Len(text) - Len(indicator) + 1) :
        EqualUpToCase(SubSeq(text, i, i + Len(indicator) - 1), indicator)

OccursAny(indicators, text) ==
    \E k \in 1..Len(indicators) : OccursIgnoringCase(indicators[k], text)

\* C10: two paths equal up to letter case get the same tier; the tier is high
\* when a high-risk substring occurs in the path in any letter case, else
\* medium when a medium-risk one does, else low
C10_Classify ==
    (inp.op = "classify" /\ inp.done) =>
        /\ EqualUpToCase(inp.path, inp.other) => inp.tier = inp.other_tier
        /\ inp.tier =
             IF OccursAny(high_risk_indicators, inp.path) THEN "high"
             ELSE IF OccursAny(medium_risk_indicators, inp.path) THEN "medium"
             ELSE "low"

\* a path holding a medium-risk and a high-risk substring, classified high
\* like its other spelling
C10_Witness ==
    /\ inp.op = "classify"
    /\ inp.done
    /\ inp.path # inp.other
    /\ EqualUpToCase(inp.path, inp.other)
    /\ OccursAny(medium_risk_indicators, inp.path)
    /\ OccursAny(high_risk_indicators, inp.path)
    /\ inp.tier = "high"
    /\ inp.other_tier = "high"

-----------------------------------------------------------------------------
(* Scenarios and frame properties of the service                           *)

\* the path under which a scan over /data records Temp/x.bin
TempFilePath == IF sep = "\\" THEN "/data\\Temp\\x.bin" ELSE "/data/Temp/x.bin"

\* call j scanned /data on a host whose baseline holds the same paths, and
\* of the files under /data only Temp/x.bin differs from what the baseline
\* recorded
OnlyTempFileModified(j) ==
    LET c == calls[j] IN
    /\ c.had_baseline
    /\ c.exc = None
    /\ c.scan_paths = <<DataRoot>>
    /\ fs.files["a.txt"] = FileState("alpha", 0, TRUE)
    /\ LET B == baselines[c.host_id].snapshot
           S == c.current_snapshot
       IN /\ Keys(B) = Keys(S)
          /\ Len(S) = 2
          /\ Cardinality({q \in Keys(S) : HashIn(S, q) # HashIn(B, q)}) = 1

\* C11 as claimed: the rescan after only /data/Temp/x.bin was modified
\* completes with one change record, of kind modified and tier high, score
\* 98 and severity low
C11_TempFileHighLow ==
    \A j \in DOMAIN calls :
        (calls[j].pc = "done" /\ OnlyTempFileModified(j)) =>
            /\ scans[j].status = "completed"
            /\ Len(scans[j].changes) = 1
            /\ scans[j].changes[1].change = "modified"
            /\ scans[j].changes[1].severity = "high"
            /\ scans[j].baseline_score = 98
            /\ scans[j].severity = "low"

\* C11 amended: that rescan completes with one change record, of kind
\* modified, and score 98; where the separator is the backslash the record
\* is of tier high and the severity is medium, where it is the slash the
\* record is of tier low and the severity is low
C11_TempFileRescan ==
    \A j \in DOMAIN calls :
        (calls[j].pc = "done" /\ OnlyTempFileModified(j)) =>
            /\ scans[j].status = "completed"
            /\ Len(scans[j].changes) = 1
            /\ scans[j].changes[1].change = "modified"
            /\ scans[j].changes[1].path = TempFilePath
            /\ scans[j].baseline_score = 98
            /\ sep = "\\" => /\ scans[j].changes[1].severity = "high"
                             /\ scans[j].severity = "medium"
            /\ sep = "/" => /\ scans[j].changes[1].severity = "low"
                            /\ scans[j].severity = "low"

\* on a backslash platform the rescan after x.bin was rewritten has returned
C11_Witness ==
    \E j \in DOMAIN calls :
        /\ calls[j].pc = "done"
        /\ OnlyTempFileModified(j)
        /\ sep = "\\"
        /\ fs.files["x.bin"].content = "bravo!"
        /\ scans[j].severity = "medium"

-----------------------------------------------------------------------------
(* Requests served by concurrent threads: routes.py holds one              *)
(* IntegrityScanner for the whole process and the server gives every       *)
(* request its own thread; the scanner takes no lock.  A thread may be     *)
(* suspended between any two statements, so the test of line 149 and the   *)
(* branch it selects are separate steps.                                   *)

\* start_scan entered by a thread while other calls are under way
StartScanThread(host_id, scan_paths) == Begin(host_id, scan_paths, "start_scan")

CreateBaselineThread(host_id) ==
    Begin(host_id, DefaultScanPaths, "create_baseline")

\* line 149: if host_id in self.baselines
TestBaseline(j) ==
    LET c == calls[j]
        found == c.host_id \in DOMAIN baselines
    IN /\ c.pc = "baseline"
       /\ Goto(j, [pc |-> IF found THEN "compare" ELSE "store",
                   branch |-> IF found THEN "compare" ELSE "store"])
       /\ UNCHANGED <<sep, fs, clock, scans, baselines, inp, reads>>

\* line 150, the baseline read at lines 212
Diff(j) ==
    LET c == calls[j] IN
    /\ c.pc = "compare"
    /\ Goto(j, [pc |-> "finalize",
                against |-> baselines[c.host_id],
                changes |-> CompareWithBaseline(baselines[c.host_id].snapshot,
                                                c.current_snapshot)])
    /\ UNCHANGED <<sep, fs, clock, scans, baselines, inp, reads>>

\* mutant: the store keeps one baseline for all hosts
StoreShared(j) ==
    LET c == calls[j]
        baseline == [host_id |-> c.host_id,
                     created_at |-> GetTimestamp(clock),
                     snapshot |-> c.current_snapshot,
                     file_count |-> Len(c.current_snapshot)]
    IN /\ c.pc = "store"
       /\ baselines' = [h \in DOMAIN baselines \cup {c.host_id} |-> baseline]
       /\ clock' = clock + 1
       /\ Goto(j, [pc |-> "finalize"])
       /\ UNCHANGED <<sep, fs, scans, inp, reads>>

\* lines 152-159: self.baselines[host_id] = {...}, whatever is stored there
Store(j) ==
    LET c == calls[j] IN
    /\ c.pc = "store"
    /\ baselines' = (c.host_id :> [host_id |-> c.host_id,
                                   created_at |-> GetTimestamp(clock),
                                   snapshot |-> c.current_snapshot,
                                   file_count |-> Len(c.current_snapshot)])
                    @@ baselines
    /\ clock' = clock + 1
    /\ Goto(j, [pc |-> "finalize"])
    /\ UNCHANGED <<sep, fs, scans, inp, reads>>

NextConc ==
    \/ \E h \in Hosts, p \in ScanPathInputs : StartScanThread(h, p)
    \/ \E h \in Hosts : CreateBaselineThread(h)
    \/ \E j \in DOMAIN calls : Traverse(j)
    \/ \E j \in DOMAIN calls : TestBaseline(j)
    \/ \E j \in DOMAIN calls : Diff(j)
    \/ \E j \in DOMAIN calls : Store(j)
    \/ \E j \in DOMAIN calls : Finalize(j)
    \/ \E j \in DOMAIN calls : CatchFailed(j)
    \/ \E j \in DOMAIN calls : CatchError(j)
    \/ \E j \in DOMAIN calls : Return(j)

SpecConc == Init /\ [][NextConc]_vars

\* the calls for host h that took the baseline-creation branch
Creators(h) ==
    {j \in DOMAIN calls :
        /\ calls[j].host_id = h
        /\ "branch" \in DOMAIN calls[j]
        /\ calls[j].branch = "store"}

\* C12 as claimed: of the concurrent scans of a host without baseline one
\* alone takes the baseline-creation branch, and the baseline it stored is
\* never overwritten
C12_SingleFirstBaseline ==
    /\ [](\A h \in Hosts : Cardinality(Creators(h)) <= 1)
    /\ [][\A h \in DOMAIN baselines : baselines'[h] = baselines[h]]_vars

-----------------------------------------------------------------------------
(* Readers: get_results, get_baseline, list_scans.  A read request runs in *)
(* its own thread while a scan is under way; `reads` holds the frame of    *)
(* the read under way or of the latest one that returned.                  *)

MaxReads == 1       \* read requests in one behaviour

\* a job id no start_scan returned
UnknownJobId == "scan-00000000"
ReadJobIds == {JobId(n) : n \in 1..MaxJobs} \cup {UnknownJobId}

\* Python's None as a returned value
PyNone == [none |-> TRUE]

ReadIdle == IF reads = <<>> THEN TRUE ELSE reads[1].pc = "done"

ReadCount == IF reads = <<>> THEN 0 ELSE reads[1].n

\* a read request enters the service
BeginRead(frame) ==
    /\ ReadIdle
    /\ ReadCount < MaxReads
    /\ reads' = <<[n |-> ReadCount + 1, exc |-> None] @@ frame>>
    /\ UNCHANGED <<sep, fs, clock, scans, baselines, calls, inp>>

\* mutant: an unknown job id yields None instead of a not_found record
GetResultsNone(job_id) ==
    BeginRead([op |-> "get_results", arg |-> job_id, pc |-> "done",
               ret |-> IF job_id \notin DOMAIN scans THEN PyNone
                       ELSE scans[job_id]])

\* get_results (lines 321-329): the record returned is the job's own dict,
\* read when the response is written
GetResults(job_id) ==
    BeginRead([op |-> "get_results", arg |-> job_id, pc |-> "done",
               ret |-> IF job_id \notin DOMAIN scans
                       THEN [job_id |-> job_id, status |-> "not_found",
                             message |-> "Scan job not found"]
                       ELSE scans[job_id]])

\* mutant: the stored baseline record is returned as it is
GetBaselineWhole(host_id) ==
    BeginRead([op |-> "get_baseline", arg |-> host_id, pc |-> "done",
               ret |-> IF host_id \notin DOMAIN baselines THEN PyNone
                       ELSE baselines[host_id]])

\* get_baseline (lines 341-350); no statement sets 'last_scan'
GetBaseline(host_id) ==
    BeginRead([op |-> "get_baseline", arg |-> host_id, pc |-> "done",
               ret |-> IF host_id \notin DOMAIN baselines THEN PyNone
                       ELSE LET baseline == baselines[host_id] IN
                            [host_id |-> baseline.host_id,
                             created_at |-> baseline.created_at,
                             file_count |-> baseline.file_count,
                             last_scan |-> baseline.created_at]])

RECURSIVE SortedByTimestamp(_)
\* sorted(scans, key=lambda x: x['timestamp'], reverse=True): a stable sort
SortedByTimestamp(list) ==
    IF Len(list) <= 1 THEN list
    ELSE LET x == Head(list)
             rest == SortedByTimestamp(Tail(list))
             before == Cardinality({k \in 1..Len(rest) :
                                      StrGreater(rest[k].timestamp, x.timestamp)})
         IN SubSeq(rest, 1, before) \o <<x>> \o SubSeq(rest, before + 1, Len(rest))

DictChangedSize == "dictionary changed size during iteration"

\* lines 381-382: the iterator over self.scans.items() is created; it notes
\* the size of the dict
ListScansBegin(host_id) ==
    BeginRead([op |-> "list_scans", arg |-> host_id, pc |-> "iterate",
               size |-> Cardinality(DOMAIN scans), k |-> 0, scans |-> <<>>,
               cur |-> PyNone, ret |-> <<>>])

\* lines 382-389: the iterator is advanced.  It raises RuntimeError when the
\* dict no longer has the size noted; items come in insertion order; for an
\* item that passes the host filter the subscripts of lines 385-388 and the
\* call scan.get('baseline_score', 0) are evaluated; after the last item the
\* list is sorted and returned (line 393)
ListScansNext ==
    /\ reads # <<>>
    /\ reads[1].pc = "iterate"
    /\ LET r == reads[1] IN
       reads' =
         IF Cardinality(DOMAIN scans) # r.size
         THEN <<[r EXCEPT !.pc = "done", !.exc = DictChangedSize]>>
         ELSE IF r.k = r.size
         THEN <<[r EXCEPT !.pc = "done", !.ret = SortedByTimestamp(r.scans)]>>
         ELSE LET scan == scans[JobId(r.k + 1)] IN
              IF r.arg = None \/ scan.host = r.arg
              THEN <<[r EXCEPT !.k = r.k + 1, !.pc = "summarize",
                               !.cur = [job_id |-> scan.job_id,
                                        host |-> scan.host,
                                        status |-> scan.status,
                                        timestamp |-> scan.timestamp,
                                        baseline_score |-> scan.baseline_score]]>>
              ELSE <<[r EXCEPT !.k = r.k + 1]>>
    /\ UNCHANGED <<sep, fs, clock, scans, baselines, calls, inp>>

\* lines 390-391: the thread may have been suspended after the call of line
\* 389; len(scan.get('changes', [])) reads the record as it is by then, and
\* the summary is appended
ListScansAppend ==
    /\ reads # <<>>
    /\ reads[1].pc = "summarize"
    /\ LET r == reads[1]
           scan == scans[r.cur.job_id]
       IN reads' = <<[r EXCEPT !.pc = "iterate",
                               !.cur = PyNone,
                               !.scans = Append(@,
                                   r.cur @@ [changes_count |-> Len(scan.changes)])]>>
    /\ UNCHANGED <<sep, fs, clock, scans, baselines, calls, inp>>

\* the service handles one scan at a time, and reads alongside it
NextRead ==
    \/ \E h \in Hosts, p \in ScanPathInputs : StartScan(h, p)
    \/ \E h \in Hosts : CreateBaseline(h)
    \/ \E j \in DOMAIN calls : Traverse(j)
    \/ \E j \in DOMAIN calls : Compare(j)
    \/ \E j \in DOMAIN calls : StoreBaseline(j)
    \/ \E j \in DOMAIN calls : Finalize(j)
    \/ \E j \in DOMAIN calls : CatchFailed(j)
    \/ \E j \in DOMAIN calls : CatchError(j)
    \/ \E j \in DOMAIN calls : Return(j)
    \/ \E id \in ReadJobIds : GetResults(id)
    \/ \E h \in Hosts : GetBaseline(h)
    \/ \E h \in Hosts \cup {None} : ListScansBegin(h)
    \/ ListScansNext
    \/ ListScansAppend

SpecRead == Init /\ [][NextRead]_vars

\* the latest read was get_results and it found the job
GotResults == reads # <<>> /\ reads[1].op = "get_results"
                /\ reads[1].arg \in DOMAIN scans

\* the latest read was list_scans and it returned a list
GotList == reads # <<>> /\ reads[1].op = "list_scans" /\ reads[1].pc = "done"
             /\ reads[1].exc = None

\* C13 as claimed: a job that a reader sees as completed has its final
\* files_scanned, changes, score, severity and completed_at, and a job that
\* a reader sees as failed has its error message
C13_NoPartialTerminal ==
    /\ GotResults =>
         LET ret == reads[1].ret IN
         /\ ret.status = "completed" =>
              /\ "completed_at" \in DOMAIN ret
              /\ ret = scans[ret.job_id]
         /\ ret.status = "failed" => "error" \in DOMAIN ret
    /\ GotList =>
         \A k \in 1..Len(reads[1].ret) :
            LET x == reads[1].ret[k] IN
            x.status = "completed" =>
                /\ x.baseline_score = scans[x.job_id].baseline_score
                /\ x.changes_count = Len(scans[x.job_id].changes)

\* C14 as claimed: what a reader gets for a job it sees as running holds no
\* changes, score, severity or changes count
C14_NoResultsWhileRunning ==
    /\ GotResults =>
         (reads[1].ret.status = "running" =>
            DOMAIN reads[1].ret \cap {"changes", "baseline_score", "severity"} = {})
    /\ GotList =>
         \A k \in 1..Len(reads[1].ret) :
            reads[1].ret[k].status = "running" =>
                DOMAIN reads[1].ret[k] \cap {"baseline_score", "changes_count"} = {}

\* C15 as claimed: start_scan returns without waiting for the traversal, so
\* a call whose scan had files to read (no fast path) returns status running
C15_ReturnsWhileRunning ==
    \A j \in DOMAIN calls :
        (/\ calls[j].pc = "done"
         /\ calls[j].via = "start_scan"
         /\ calls[j].files_scanned > 0) =>
            calls[j].ret.status = "running"

\* the record of every call that ran to its return holds what that call was
\* given and computed
OwnRecords ==
    \A j \in DOMAIN calls :
        LET c == calls[j] IN
        /\ j \in DOMAIN scans
        /\ scans[j].job_id = j
        /\ scans[j].host = c.host_id
        /\ scans[j].scan_paths = c.scan_paths
        /\ (c.pc \in {"return", "done"} /\ c.exc = None) =>
              /\ scans[j].status = "completed"
              /\ scans[j].files_scanned = c.files_scanned
              /\ scans[j].changes = c.changes
              /\ scans[j].baseline_score = BaselineScore(c.changes)
              /\ scans[j].severity = CalculateSeverity(c.changes)
        /\ (c.pc \in {"return", "done"} /\ c.exc # None) =>
              /\ scans[j].status = "failed"
              /\ scans[j].error = c.exc

\* C16 as claimed: every call ends with its own record holding the values it
\* computed, and no get_results or list_scans running alongside raises
C16_NoCorruptionNoFault ==
    /\ OwnRecords
    /\ reads # <<>> => reads[1].exc = None

\* the calls that take the step: the one that begins or whose frame changes
Acting == {j \in DOMAIN calls' : j \notin DOMAIN calls \/ calls'[j] # calls[j]}

\* the step leaves the baseline of every host but `host` as it is
OtherBaselinesKept(host) ==
    \A h \in Hosts \ {host} :
        /\ h \in DOMAIN baselines' <=> h \in DOMAIN baselines
        /\ h \in DOMAIN baselines => baselines'[h] = baselines[h]

\* the step leaves the job records of every host but `host` as they are and
\* adds none for them
OtherJobsKept(host) ==
    /\ \A k \in DOMAIN scans :
         scans[k].host # host => k \in DOMAIN scans' /\ scans'[k] = scans[k]
    /\ \A k \in DOMAIN scans' \ DOMAIN scans : scans'[k].host = host

\* what a scan over scan_paths finds in the file system, whoever runs it
Found(scan_paths) ==
    ScanPaths(scan_paths, 1,
              [current_snapshot |-> <<>>, files_scanned |-> 0,
               changes |-> <<>>, exc |-> None])

\* the result of the completed call j follows from its own scan_paths, the
\* file system and, when it was diffed, a baseline of its own host
OwnResult(j) ==
    LET c == calls[j]
        found == Found(c.scan_paths)
    IN /\ scans[j].files_scanned = found.files_scanned
       /\ c.branch = "store" => scans[j].changes = found.changes
       /\ c.branch = "compare" =>
            /\ c.against.host_id = c.host_id
            /\ \E k \in DOMAIN calls :
                 /\ calls[k].host_id = c.host_id
                 /\ calls[k].current_snapshot = c.against.snapshot
            /\ scans[j].changes =
                 CompareWithBaseline(c.against.snapshot, found.current_snapshot)
       /\ scans[j].baseline_score = BaselineScore(scans[j].changes)
       /\ scans[j].severity = CalculateSeverity(scans[j].changes)

GetResultsStep ==
    /\ reads' # reads
    /\ reads'[1].op = "get_results"

GetBaselineStep ==
    /\ reads' # reads
    /\ reads'[1].op = "get_baseline"

\* C19: get_results for a job id not in the table returns a record of
\* status not_found, get_baseline for a host without baseline returns None;
\* neither raises nor changes the job table or the baseline store
C19_NotFound ==
    [][/\ (GetResultsStep /\ reads'[1].arg \notin DOMAIN scans) =>
            /\ reads'[1].pc = "done"
            /\ reads'[1].exc = None
            /\ reads'[1].ret = [job_id |-> reads'[1].arg,
                                status |-> "not_found",
                                message |-> "Scan job not found"]
            /\ scans' = scans
            /\ baselines' = baselines
       /\ (GetBaselineStep /\ reads'[1].arg \notin DOMAIN baselines) =>
            /\ reads'[1].pc = "done"
            /\ reads'[1].exc = None
            /\ reads'[1].ret = PyNone
            /\ scans' = scans
            /\ baselines' = baselines]_vars

\* with a job in the table and a baseline stored for another host, a read
\* asked for the baseline of a host without one and got None
C19_Witness ==
    /\ reads # <<>>
    /\ reads[1].op = "get_baseline"
    /\ reads[1].ret = PyNone
    /\ reads[1].arg \notin DOMAIN baselines
    /\ DOMAIN baselines # {}
    /\ DOMAIN scans # {}

\* C20: get_baseline for a host with a baseline returns host_id, created_at
\* and file_count of the stored baseline (and last_scan), holds neither the
\* snapshot nor a field of a snapshot entry, and leaves the store unchanged
C20_BaselineSummary ==
    [][(GetBaselineStep /\ reads'[1].arg \in DOMAIN baselines) =>
          LET ret == reads'[1].ret
              baseline == baselines[reads'[1].arg]
          IN /\ reads'[1].exc = None
             /\ ret.host_id = baseline.host_id
             /\ ret.host_id = reads'[1].arg
             /\ ret.created_at = baseline.created_at
             /\ ret.file_count = baseline.file_count
             /\ ret.file_count = Len(baseline.snapshot)
             /\ DOMAIN ret = {"host_id", "created_at", "file_count", "last_scan"}
             /\ ret.last_scan = baseline.created_at
             /\ baselines' = baselines
             /\ scans' = scans]_vars

\* the summary of a baseline of two files was returned
C20_Witness ==
    /\ reads # <<>>
    /\ reads[1].op = "get_baseline"
    /\ reads[1].arg \in DOMAIN baselines
    /\ reads[1].ret # PyNone
    /\ reads[1].ret.file_count = 2
    /\ Len(baselines[reads[1].arg].snapshot) = 2

-----------------------------------------------------------------------------
(* One request at a time, reads included; the service may have been        *)
(* started at any instant                                                  *)

StartScanAlone(host_id, scan_paths) == ReadIdle /\ StartScan(host_id, scan_paths)

CreateBaselineAlone(host_id) == ReadIdle /\ CreateBaseline(host_id)

ListScansAlone(host_id) == Idle /\ ListScansBegin(host_id)

GetResultsAlone(job_id) == Idle /\ GetResults(job_id)

InitAnyTime ==
    /\ sep \in {"/", "\\"}
    /\ fs = [roots |-> {DataRoot, ProgRoot},
             files |-> [n \in FileNames |-> FileState("alpha", 0, TRUE)],
             ops |-> 0]
    /\ clock \in 0..(Len(Fractions) - 1)
    /\ scans = <<>>
    /\ baselines = <<>>
    /\ calls = <<>>
    /\ inp = [op |-> "none"]
    /\ reads = <<>>

NextSeq ==
    \/ \E h \in Hosts, p \in ScanPathInputs : StartScanAlone(h, p)
    \/ \E h \in Hosts : CreateBaselineAlone(h)
    \/ \E j \in DOMAIN calls : Traverse(j)
    \/ \E j \in DOMAIN calls : Compare(j)
    \/ \E j \in DOMAIN calls : StoreBaseline(j)
    \/ \E j \in DOMAIN calls : Finalize(j)
    \/ \E j \in DOMAIN calls : CatchFailed(j)
    \/ \E j \in DOMAIN calls : CatchError(j)
    \/ \E j \in DOMAIN calls : Return(j)
    \/ \E h \in Hosts \cup {None} : ListScansAlone(h)
    \/ \E id \in ReadJobIds : GetResultsAlone(id)
    \/ ListScansNext
    \/ ListScansAppend

SpecSeq == InitAnyTime /\ [][NextSeq]_vars

\* list_scans has returned and no job was added since it was called
Listed == GotList /\ Cardinality(DOMAIN scans) = reads[1].size

\* the jobs list_scans(host) is to return
Wanted(host) == {j \in DOMAIN scans : host = None \/ scans[j].host = host}

\* one summary per wanted job, with the status, score and changes count of
\* its record
ListedAll ==
    Listed =>
        LET ret == reads[1].ret IN
        /\ Len(ret) = Cardinality(Wanted(reads[1].arg))
        /\ {ret[k].job_id : k \in 1..Len(ret)} = Wanted(reads[1].arg)
        /\ \A k \in 1..Len(ret) :
             LET job == scans[ret[k].job_id] IN
             /\ ret[k].host = job.host
             /\ ret[k].status = job.status
             /\ ret[k].timestamp = job.timestamp
             /\ ret[k].baseline_score = job.baseline_score
             /\ ret[k].changes_count = Len(job.changes)

\* no summary comes before one of a job that started later
ListedDescending ==
    Listed =>
        LET ret == reads[1].ret IN
        \A k, l \in 1..Len(ret) :
            k < l => TickOf(ret[k].timestamp) >= TickOf(ret[l].timestamp)

\* C21 as claimed: list_scans returns one summary per job of the host (of
\* any host when none is given) with the status, score and changes count of
\* the job's record, ordered by start time, latest first
C21_ListScans == ListedAll /\ ListedDescending

-----------------------------------------------------------------------------
(* Specification: scans over a file system with large directories,         *)
(* overlapping roots and files that cannot be read                         *)

UnreadableFile == FileState("alpha", 0, FALSE)
\* os.stat fails: the file went away after os.walk listed it, or access to
\* its metadata is denied
StatFails == [FileState("alpha", 0, TRUE) EXCEPT !.stat = "OSError"]
\* os.stat succeeds with a time datetime.fromtimestamp does not accept
BadTime == [FileState("alpha", 0, TRUE) EXCEPT !.stat = "ValueError"]

WalkFileStates ==
    {FileState("alpha", 0, TRUE), UnreadableFile, StatFails, BadTime, Absent}

WalkRoots == {DataRoot, TempRoot, BulkRoot, ProgDataRoot}

WalkPathInputs ==
    {<<BulkRoot, DataRoot>>, <<TempRoot, BulkRoot, DataRoot>>,
     <<DataRoot, TempRoot>>, <<DataRoot, DataRoot>>,
     <<DataRoot, ProgRoot>>, <<ProgRoot>>}

InitWalk ==
    /\ sep \in {"/", "\\"}
    /\ \E a, x \in WalkFileStates :
          fs = [roots |-> WalkRoots,
                files |-> [n \in FileNames |->
                             IF n = "a.txt" THEN a
                             ELSE IF n = "x.bin" THEN x ELSE Absent],
                ops |-> 0]
    /\ clock = 1
    /\ scans = <<>>
    /\ baselines = <<>>
    /\ calls = <<>>
    /\ inp = [op |-> "none"]
    /\ reads = <<>>

\* the first scan of a host: what a traversal yields does not depend on
\* the baseline
FirstScan(host_id, scan_paths) ==
    /\ \A j \in DOMAIN calls : calls[j].host_id # host_id
    /\ StartScan(host_id, scan_paths)

NextWalk ==
    \/ \E h \in Hosts, p \in WalkPathInputs : FirstScan(h, p)
    \/ \E j \in DOMAIN calls : Traverse(j)
    \/ \E j \in DOMAIN calls : StoreBaseline(j)
    \/ \E j \in DOMAIN calls : Finalize(j)
    \/ \E j \in DOMAIN calls : Return(j)

SpecWalk == InitWalk /\ [][NextWalk]_vars

\* C22: a completed job has fingerprinted at most 500 files and the snapshot
\* its scan took has at most 500 entries, however many files a directory
\* holds
C22_FileBudget ==
    \A j \in DOMAIN scans :
        scans[j].status = "completed" =>
            /\ scans[j].files_scanned <= FileBudget
            /\ Len(calls[j].current_snapshot) <= FileBudget

\* the paths under which the walk records the two files
DataFilePath == Join(DataRoot, "a.txt")
TempFileUnderData == Join(Join(DataRoot, "Temp"), "x.bin")
TempFileUnderTemp == Join(TempRoot, "x.bin")

Listable(file) == file.present /\ file.stat = "ok"

\* the job walked DataRoot first and has returned
WalkedData(j) ==
    /\ calls[j].pc = "done"
    /\ calls[j].scan_paths[1] = DataRoot

\* C23: errors on files and roots never fail the job: a file that cannot be
\* read is recorded with the hash "hash_failed"; a file whose os.stat fails
\* is left out and the files after it are recorded; an unexpected error
\* inside a root keeps the entries made so far and the next root is walked
C23_ErrorsTolerated ==
    \A j \in DOMAIN calls :
        LET a == fs.files["a.txt"]
            x == fs.files["x.bin"]
            S == baselines[calls[j].host_id].snapshot
        IN /\ scans[j].status # "failed"
           /\ WalkedData(j) =>
                /\ scans[j].status = "completed"
                /\ a = UnreadableFile =>
                      /\ DataFilePath \in Keys(S)
                      /\ Entry(S, DataFilePath).hash = "hash_failed"
                /\ (x = UnreadableFile /\ a # BadTime) =>
                      /\ TempFileUnderData \in Keys(S)
                      /\ Entry(S, TempFileUnderData).hash = "hash_failed"
                /\ a = StatFails =>
                      /\ DataFilePath \notin Keys(S)
                      /\ Listable(x) => TempFileUnderData \in Keys(S)
                /\ (x = BadTime /\ Listable(a)) => DataFilePath \in Keys(S)
                /\ (a = BadTime /\ Listable(x)
                      /\ calls[j].scan_paths = <<DataRoot, TempRoot>>) =>
                      /\ DataFilePath \notin Keys(S)
                      /\ TempFileUnderTemp \in Keys(S)

\* a.txt stops the walk of /data, x.bin cannot be read: the job completes
\* and x.bin is recorded from the next root
C23_Witness ==
    \E j \in DOMAIN calls :
        /\ WalkedData(j)
        /\ calls[j].scan_paths = <<DataRoot, TempRoot>>
        /\ fs.files["a.txt"] = BadTime
        /\ fs.files["x.bin"] = UnreadableFile
        /\ scans[j].status = "completed"
        /\ Keys(baselines[calls[j].host_id].snapshot) = {TempFileUnderTemp}
        /\ baselines[calls[j].host_id].snapshot[1].hash = "hash_failed"

-----------------------------------------------------------------------------
(* The change list of a job                                                *)

\* the snapshot has the paths of the baseline, each with the hash it has
\* there
NoDeviation(baseline_snapshot, current_snapshot) ==
    /\ Keys(current_snapshot) = Keys(baseline_snapshot)
    /\ \A p \in Keys(current_snapshot) :
          Entry(current_snapshot, p).hash = Entry(baseline_snapshot, p).hash

\* C24 as claimed: the changes of a completed job are empty exactly when the
\* host had no baseline before the scan or the scan found no deviation
C24_EmptyIffFirstOrSame ==
    \A j \in DOMAIN calls :
        (calls[j].pc = "return" /\ calls[j].exc = None) =>
            (scans[j].changes = <<>>
               <=> \/ ~calls[j].had_baseline
                   \/ NoDeviation(baselines[calls[j].host_id].snapshot,
                                  calls[j].current_snapshot))

\* C24 amended: the changes of a completed job are empty exactly when the
\* host had no baseline and every root existed, or the host had a baseline
\* and the snapshot does not deviate from it; a job that is running or failed
\* has no changes
C24_EmptyChanges ==
    \A j \in DOMAIN calls :
        /\ (calls[j].pc = "return" /\ calls[j].exc = None) =>
              (scans[j].changes = <<>>
                 <=> IF calls[j].had_baseline
                     THEN NoDeviation(baselines[calls[j].host_id].snapshot,
                                      calls[j].current_snapshot)
                     ELSE MissingRoots(j) = <<>>)
        /\ scans[j].status # "completed" => scans[j].changes = <<>>

\* a first scan with missing roots has completed with changes, and the
\* rescan of the host has just completed without any
C24_Witness ==
    \E i, j \in DOMAIN calls :
        /\ ~calls[i].had_baseline
        /\ scans[i].status = "completed"
        /\ scans[i].changes # <<>>
        /\ calls[j].had_baseline
        /\ calls[j].pc = "return"
        /\ scans[j].status = "completed"
        /\ scans[j].changes = <<>>

-----------------------------------------------------------------------------
(* Specification: scans of a directory and of a file given as a root,      *)
(* while the file comes and goes                                           *)

TierPathInputs == {<<DataRoot>>, <<FilePath("x.bin")>>}

InitTier ==
    /\ sep \in {"/", "\\"}
    /\ \E x \in {FileState("alpha", 0, TRUE), Absent} :
          fs = [roots |-> {DataRoot},
                files |-> [n \in FileNames |->
                             IF n = "a.txt" THEN FileState("alpha", 0, TRUE)
                             ELSE IF n = "x.bin" THEN x ELSE Absent],
                ops |-> 0]
    /\ clock = 1
    /\ scans = <<>>
    /\ baselines = <<>>
    /\ calls = <<>>
    /\ inp = [op |-> "none"]
    /\ reads = <<>>

NextTier ==
    \/ \E h \in Hosts, p \in TierPathInputs : StartScan(h, p)
    \/ \E j \in DOMAIN calls : Traverse(j)
    \/ \E j \in DOMAIN calls : Compare(j)
    \/ \E j \in DOMAIN calls : StoreBaseline(j)
    \/ \E j \in DOMAIN calls : Finalize(j)
    \/ \E j \in DOMAIN calls : Return(j)
    \/ \E c \in Contents : WriteFile("x.bin", c)
    \/ DeleteFile("x.bin")

SpecTier == InitTier /\ [][NextTier]_vars

\* every change record of every job
ChangeRecords ==
    UNION {{scans[j].changes[k] : k \in 1..Len(scans[j].changes)} :
              j \in DOMAIN scans}

RiskTiers == {"low", "medium", "high"}

\* C25 as claimed: every change record has one tier of low, medium, high;
\* the tier of a new, modified or deleted record is the classification of
\* its path; records with the same path have the same tier
C25_TierByPath ==
    /\ \A r \in ChangeRecords :
          /\ r.severity \in RiskTiers
          /\ r.change \in {"new", "modified", "deleted"} =>
                r.severity = AssessFileRisk(r.path)
    /\ \A r1, r2 \in ChangeRecords :
          r1.path = r2.path => r1.severity = r2.severity

\* C25 amended: every change record has one tier of low, medium, high: low
\* for a path_not_found record, the classification of its path for a new,
\* modified or deleted record
C25_TierByKindAndPath ==
    \A r \in ChangeRecords :
        /\ r.severity \in RiskTiers
        /\ r.change \in {"new", "modified", "deleted", "path_not_found"}
        /\ r.severity = IF r.change = "path_not_found" THEN "low"
                        ELSE AssessFileRisk(r.path)

\* the file given as a root was missing, then found as a new file of the
\* directory: one path with a low and a high record
C25_Witness ==
    \E r1, r2 \in ChangeRecords :
        /\ r1.path = r2.path
        /\ r1.change = "path_not_found"
        /\ r2.change = "new"
        /\ r1.severity = "low"
        /\ r2.severity = "high"

-----------------------------------------------------------------------------
(* What a failed scan leaves behind                                        *)

\* C26: a failed job has the changes, score, severity and file count of its
\* creation and no completed_at; no step of a call in which an exception was
\* raised touches a baseline, or any field of the job record but status and
\* error; a host without baseline has none when the failed call returns
C26_FailedLeavesNothing ==
    /\ [](\A j \in DOMAIN scans :
            scans[j].status = "failed" =>
                /\ scans[j].changes = <<>>
                /\ scans[j].baseline_score = 100
                /\ scans[j].severity = "low"
                /\ scans[j].files_scanned = 0
                /\ "completed_at" \notin DOMAIN scans[j]
                /\ (calls[j].pc = "return" /\ ~calls[j].had_baseline) =>
                       calls[j].host_id \notin DOMAIN baselines)
    /\ [][\A j \in DOMAIN calls :
            (calls[j].pc # "done" /\ calls'[j].exc # None) =>
                /\ baselines' = baselines
                /\ DOMAIN scans'[j] \ {"status", "error"} = DOMAIN scans[j] \ {"status", "error"}
                /\ \A f \in DOMAIN scans[j] \ {"status", "error"} :
                      scans'[j][f] = scans[j][f]]_vars

\* a first scan failed after it had fingerprinted files: the call returned,
\* the host has no baseline and the record shows no file
C26_Witness ==
    \E j \in DOMAIN calls :
        /\ calls[j].pc = "done"
        /\ scans[j].status = "failed"
        /\ calls[j].files_scanned > 0
        /\ scans[j].files_scanned = 0
        /\ ~calls[j].had_baseline
        /\ calls[j].host_id \notin DOMAIN baselines

-----------------------------------------------------------------------------
(* Specification: every call keeps running (the server gives each request  *)
(* a thread of its own, and the operating system schedules every thread)   *)

EndlessFile == [FileState("alpha", 0, TRUE) EXCEPT !.endless = TRUE]

JobIds == {JobId(n) : n \in 1..MaxJobs}

InitLive ==
    /\ sep \in {"/", "\\"}
    /\ \E x \in {FileState("alpha", 0, TRUE), EndlessFile, Absent} :
          fs = [roots |-> {DataRoot, ProgRoot},
                files |-> [n \in FileNames |->
                             IF n = "x.bin" THEN x
                             ELSE FileState("alpha", 0, TRUE)],
                ops |-> 0]
    /\ clock = 1
    /\ scans = <<>>
    /\ baselines = <<>>
    /\ calls = <<>>
    /\ inp = [op |-> "none"]
    /\ reads = <<>>

NextLive ==
    \/ \E h \in Hosts, p \in ScanPathInputs : StartScan(h, p)
    \/ \E h \in Hosts : CreateBaseline(h)
    \/ \E j \in DOMAIN calls : Traverse(j)
    \/ \E j \in DOMAIN calls : ReadChunk(j)
    \/ \E j \in DOMAIN calls : Compare(j)
    \/ \E j \in DOMAIN calls : StoreBaseline(j)
    \/ \E j \in DOMAIN calls : Finalize(j)
    \/ \E j \in DOMAIN calls : CatchFailed(j)
    \/ \E j \in DOMAIN calls : CatchError(j)
    \/ \E j \in DOMAIN calls : Return(j)

\* the statements of call j
CallStep(j) ==
    /\ j \in DOMAIN calls
    /\ \/ Traverse(j) \/ ReadChunk(j) \/ Compare(j) \/ StoreBaseline(j)
       \/ Finalize(j) \/ CatchFailed(j) \/ CatchError(j) \/ Return(j)

SpecLive ==
    InitLive /\ [][NextLive]_vars /\ \A j \in JobIds : WF_vars(CallStep(j))

\* C27: every job that is created is eventually completed or failed, and its
\* call returns
C27_Terminates ==
    \A j \in JobIds :
        (j \in DOMAIN scans) ~>
            (/\ j \in DOMAIN scans
             /\ scans[j].status \in {"completed", "failed"}
             /\ calls[j].pc = "done")

-----------------------------------------------------------------------------
(* Baselines of scanned hosts                                              *)

\* C28: a host with a completed job has a baseline; a first scan that finds
\* no file stores a baseline with an empty snapshot and file_count 0, and a
\* scan against an empty baseline reports each file it finds as new
C28_CompletedHasBaseline ==
    /\ \A j \in DOMAIN scans :
          scans[j].status = "completed" => scans[j].host \in DOMAIN baselines
    /\ \A j \in DOMAIN calls :
          (calls[j].pc = "return" /\ calls[j].exc = None) =>
              LET b == baselines[calls[j].host_id]
                  S == calls[j].current_snapshot
              IN /\ (~calls[j].had_baseline /\ FilesUnder(j) = {}) =>
                       /\ b.snapshot = <<>>
                       /\ b.file_count = 0
                 /\ (calls[j].had_baseline /\ b.snapshot = <<>>) =>
                       /\ Len(scans[j].changes) = Len(S)
                       /\ \A k \in 1..Len(S) :
                             /\ scans[j].changes[k].change = "new"
                             /\ scans[j].changes[k].path = S[k].path

\* the first scan of a host found every root missing, and the next scan of
\* the host has just reported two files as new
C28_Witness ==
    \E i, j \in DOMAIN calls :
        /\ calls[i].host_id = calls[j].host_id
        /\ ~calls[i].had_baseline
        /\ scans[i].status = "completed"
        /\ Len(scans[i].changes) = Len(calls[i].scan_paths)
        /\ baselines[calls[i].host_id].file_count = 0
        /\ calls[j].had_baseline
        /\ calls[j].pc = "return"
        /\ Len(scans[j].changes) = 2
        /\ \A k \in 1..2 : scans[j].changes[k].change = "new"

-----------------------------------------------------------------------------
(* Score and severity of a job record                                      *)

\* the records of a change list that carry the given tier
OfTier(changes, tier) ==
    Cardinality({k \in 1..Len(changes) : changes[k].severity = tier})

\* C29: in every job record, whatever its status, the score is 100 minus two
\* points per stored change (at most 30), and the severity is high for three
\* high-tier changes or ten changes, else medium for one high-tier or three
\* medium-tier changes, else low
C29_StoredAggregates ==
    \A j \in DOMAIN scans :
        LET n == Len(scans[j].changes)
            high == OfTier(scans[j].changes, "high")
            medium == OfTier(scans[j].changes, "medium")
        IN /\ scans[j].baseline_score = 100 - (IF 2 * n < 30 THEN 2 * n ELSE 30)
           /\ scans[j].severity =
                IF high >= 3 \/ n >= 10 THEN "high"
                ELSE IF high >= 1 \/ medium >= 3 THEN "medium"
                ELSE "low"

\* a job completed with two changes, one of them high-tier: score 96,
\* severity medium
C29_Witness ==
    \E j \in DOMAIN scans :
        /\ scans[j].status = "completed"
        /\ Len(scans[j].changes) = 2
        /\ OfTier(scans[j].changes, "high") = 1
        /\ scans[j].severity = "medium"
        /\ scans[j].baseline_score = 96

-----------------------------------------------------------------------------
(* File counts                                                             *)

\* the visits of the walk: a file of the layout met under the k-th root
Reached(j) ==
    {kn \in (1..Len(calls[j].scan_paths)) \X FileNames :
        /\ calls[j].scan_paths[kn[1]] \in fs.roots
        /\ kn[2] \in NamesUnder(calls[j].scan_paths[kn[1]])
        /\ Listable(fs.files[kn[2]])}

\* no visit was cut short: the budget was not used up and no file stopped
\* the walk of its root
WalkedInFull(j) ==
    /\ scans[j].files_scanned < FileBudget
    /\ \A k \in 1..Len(calls[j].scan_paths) : calls[j].scan_paths[k] # BulkRoot
    /\ \A n \in FileNames : fs.files[n] # BadTime

\* C30 as claimed: file_count is the number of snapshot entries; a completed
\* job has scanned at least as many files as its snapshot has paths, and
\* exactly as many when no file was reached from more than one root
C30_CountsByFile ==
    /\ \A h \in DOMAIN baselines :
          /\ baselines[h].file_count = Len(baselines[h].snapshot)
          /\ baselines[h].file_count = Cardinality(Keys(baselines[h].snapshot))
    /\ \A j \in DOMAIN calls :
          (calls[j].pc = "return" /\ scans[j].status = "completed") =>
              LET paths == Keys(calls[j].current_snapshot) IN
              /\ scans[j].files_scanned >= Cardinality(paths)
              /\ WalkedInFull(j) =>
                    (scans[j].files_scanned = Cardinality(paths)
                       <=> \A v, w \in Reached(j) : v[2] = w[2] => v = w)

\* C30 amended: file_count is the number of snapshot entries; a completed
\* job has scanned one file per visit and its snapshot holds the paths of
\* the visits, so it has scanned at least as many files as the snapshot has
\* paths, and exactly as many when no two visits gave the same path
C30_CountsByPath ==
    /\ \A h \in DOMAIN baselines :
          /\ baselines[h].file_count = Len(baselines[h].snapshot)
          /\ baselines[h].file_count = Cardinality(Keys(baselines[h].snapshot))
    /\ \A j \in DOMAIN calls :
          (calls[j].pc = "return" /\ scans[j].status = "completed") =>
              LET paths == Keys(calls[j].current_snapshot)
                  Path(v) == PathVia(calls[j].scan_paths[v[1]], v[2])
              IN /\ scans[j].files_scanned >= Cardinality(paths)
                 /\ WalkedInFull(j) =>
                       /\ scans[j].files_scanned = Cardinality(Reached(j))
                       /\ paths = {Path(v) : v \in Reached(j)}
                       /\ scans[j].files_scanned = Cardinality(paths)
                            <=> \A v, w \in Reached(j) :
                                   Path(v) = Path(w) => v = w

\* x.bin was reached from /data and from /data/Temp, under two paths: three
\* files scanned, three snapshot entries
C30_Witness ==
    \E j \in DOMAIN calls :
        /\ calls[j].pc = "return"
        /\ scans[j].status = "completed"
        /\ calls[j].scan_paths = <<DataRoot, TempRoot>>
        /\ WalkedInFull(j)
        /\ scans[j].files_scanned = 3
        /\ Keys(calls[j].current_snapshot) =
              {DataFilePath, TempFileUnderData, TempFileUnderTemp}
        /\ TempFileUnderData # TempFileUnderTemp

=============================================================================
